---- MODULE Spec2Model ----
(***************************************************************************)
(* Real-time collaboration session manager of the backend                  *)
(* (app/api/v1/websocket.py): the ConnectionManager registry, its          *)
(* broadcast loop, the per-connection handler project_websocket and the    *)
(* edit-history append of handle_edit_message.                             *)
(*                                                                         *)
(* The program runs on one asyncio event loop.  A step of the model is the *)
(* code one coroutine executes between two suspension points (awaits); the *)
(* coroutines are the connection handlers and the detached tasks that      *)
(* disconnect() creates for the user_left broadcast.                       *)
(***************************************************************************)
EXTENDS Integers, Sequences, FiniteSets, TLC

\* ------------------------------------------------------------------ bounds
\* connections that open in a run
NConn == 3
\* inbound payloads the handlers receive in a run, all connections together
MaxMsgs == 1
\* peers that go away in a run
MaxDrops == 1
\* connections that are between the handshake and the registration at once
MaxHandshaking == 1
\* last value of the clock
MaxClock == 1
\* the second workload (SpecSmall): fewer connections, more payloads per
\* connection, and calls of the member-list endpoint
SmallConns == 2
SmallMsgs == 2
SmallDrops == 1
SmallQueries == 1

Conns == 1..NConn
\* users.id of the rows of the users table
Users == 1..NConn
\* the identities the token of connection c may name: its own user, and from
\* the third connection on also user 1, who then holds two connections
Identities(c) == IF c >= 3 THEN {c, 1} ELSE {c}
Projects == {"p1", "p2"}
\* a project id no row of the projects table carries
MissingProject == "p0"
Creds == {"valid", "invalid"}
MsgKinds == {"edit", "cursor", "ping", "other", "badjson", "nonobject"}

\* the projects table the handler reads: p1 is public, p2 is private
ProjectOwner == [p \in Projects |-> IF p = "p1" THEN 2 ELSE 1]
ProjectPublic == [p \in Projects |-> p = "p1"]

\* close codes of project_websocket
CodeNotFound == 4404
CodeForbidden == 4403
CodeInternal == 4500

NoUser == 0
NoMid == <<0, 0>>
\* the value a client writes in the timestamp field of a payload it sends
ClientTs == -1

VARIABLES
    pc,         \* pc[c]: position of connection c's handler
    cuser,      \* cuser[c]: identity the credential of c names
    cproj,      \* cproj[c]: project id of the connection's path
    ccred,      \* ccred[c]: what the Identity Verifier says of c's token
    transport,  \* transport[c]: "none", "open", "broken" (the peer went
                \* away), "closed" (the handler closed it)
    closeCode,  \* closeCode[c]: code of the handler's websocket.close, 0 if none
    ac,         \* manager.active_connections: project -> ordered dict
    us,         \* manager.user_sessions: project -> (user -> session)
    obj,        \* obj[p]: identity of the dict object active_connections[p]
    tasks,      \* detached tasks created by asyncio.create_task
    it,         \* it[c]: the broadcast call handler c is running or ran last
    sent,       \* sent[c]: the send attempts made on connection c, in order
    hist,       \* hist[c]: inbound payloads c's handler received, in order
    edit_log,   \* rows of edit_history, in commit order
    now,        \* the clock datetime.utcnow() reads
    resp,       \* the responses of GET /projects/{project_id}/users, in order
    quota       \* what the environment does in this run: how many
                \* connections open, payloads arrive, peers go away and
                \* member-list requests are made

vars == <<pc, cuser, cproj, ccred, transport, closeCode, ac, us, obj, tasks,
          it, sent, hist, edit_log, now, resp, quota>>

\* ----------------------------------------------------------------- helpers
Put(f, k, v) == [x \in DOMAIN f \cup {k} |-> IF x = k THEN v ELSE f[x]]
Del(f, k) == [x \in DOMAIN f \ {k} |-> f[x]]

\* values datetime.utcnow() may return once the clock read t: it does not go
\* back
TimesFrom(t) == {x \in t..(t + 1) : x <= MaxClock}
\* the clock is seen to advance across the database round trip of a commit;
\* the other steps read it as it stands
Times == {now}

Env(type, user, mid, ts, users) ==
    [type |-> type, user |-> user, mid |-> mid, ts |-> ts, users |-> users]

\* the dict entries that hold a value (a popped entry stays as a dead slot of
\* the entry table until the dict is resized)
LiveIdx(d) == {i \in 1..Len(d) : d[i].live}
LiveCount(d) == Cardinality(LiveIdx(d))
KeyIdx(d, u) == {i \in LiveIdx(d) : d[i].uid = u}

\* the manager's state as one value
Mgr == [ac |-> ac, us |-> us, obj |-> obj, tasks |-> tasks, sent |-> sent]

NoIter ==
    [proj |-> MissingProject, excl |-> NoUser, env |-> Env("none", NoUser, NoMid, 0, {}),
     obj |-> 0, pos |-> 0, len |-> 0, used |-> 0, failed |-> <<>>,
     start |-> <<>>, tried |-> <<>>, dirty |-> FALSE, st |-> "none"]

\* --------------------------------------------------- registry (the manager)
\* user_info built by project_websocket from the users row
UserInfo(u) == [id |-> u]
\* what pop(user_id, {}).get("user_info") gives for an absent member
NoInfo == [id |-> NoUser]

\* (mutant) the registration adds an entry whether or not the key is there
RegisterAppend(m, p, u, ws, t) ==
    LET d0 == IF p \in DOMAIN m.ac THEN m.ac[p] ELSE <<>>
        s0 == IF p \in DOMAIN m.us THEN m.us[p] ELSE <<>>
    IN  [m EXCEPT !.ac = Put(m.ac, p, Append(d0, [uid |-> u, ws |-> ws, live |-> TRUE])),
                  !.us = Put(m.us, p, Put(s0, u, [user_info |-> UserInfo(u),
                                                   connected_at |-> t,
                                                   last_activity |-> t]))]

\* (mutant) a registration over an existing key swaps the handle and leaves
\* the session entry as it was
RegisterKeepSession(m, p, u, ws, t) ==
    LET d0 == IF p \in DOMAIN m.ac THEN m.ac[p] ELSE <<>>
        d1 == IF KeyIdx(d0, u) # {}
              THEN [i \in 1..Len(d0) |->
                      IF i \in KeyIdx(d0, u) THEN [d0[i] EXCEPT !.ws = ws] ELSE d0[i]]
              ELSE Append(d0, [uid |-> u, ws |-> ws, live |-> TRUE])
        s0 == IF p \in DOMAIN m.us THEN m.us[p] ELSE <<>>
        s1 == IF u \in DOMAIN s0 THEN s0
              ELSE Put(s0, u, [user_info |-> UserInfo(u), connected_at |-> t,
                               last_activity |-> t])
    IN  [m EXCEPT !.ac = Put(m.ac, p, d1), !.us = Put(m.us, p, s1)]

\* ConnectionManager.connect, the registry update after accept()
Register(m, p, u, ws, t) ==
    LET d0 == IF p \in DOMAIN m.ac THEN m.ac[p] ELSE <<>>
        d1 == IF KeyIdx(d0, u) # {}
              THEN [i \in 1..Len(d0) |->
                      IF i \in KeyIdx(d0, u) THEN [d0[i] EXCEPT !.ws = ws] ELSE d0[i]]
              ELSE Append(d0, [uid |-> u, ws |-> ws, live |-> TRUE])
        s0 == IF p \in DOMAIN m.us THEN m.us[p] ELSE <<>>
        s1 == Put(s0, u, [user_info |-> UserInfo(u), connected_at |-> t,
                          last_activity |-> t])
    IN  [m EXCEPT !.ac = Put(m.ac, p, d1), !.us = Put(m.us, p, s1)]

\* the handle the registry holds for (p, u), 0 if none
HandleOf(m, p, u) ==
    IF p \in DOMAIN m.ac /\ KeyIdx(m.ac[p], u) # {}
    THEN m.ac[p][CHOOSE i \in KeyIdx(m.ac[p], u) : TRUE].ws
    ELSE 0

\* the handles registered under p
Handles(m, p) ==
    IF p \in DOMAIN m.ac THEN {m.ac[p][i].ws : i \in LiveIdx(m.ac[p])} ELSE {}

\* the detached coroutine asyncio.create_task schedules
NewTask(p, env, excl, rem) ==
    [proj |-> p, env |-> env, excl |-> excl, rem |-> rem, it |-> NoIter]

\* (mutant) the user_left broadcast is scheduled whatever pop() returned
LeaveAnnouncedAlways(info) == TRUE

\* disconnect(): is the user_left broadcast scheduled
LeaveAnnounced(info) == info # NoInfo

\* (mutant) the deregistration schedules the user_left broadcast and leaves
\* the member's entries where they are
DisconnectKeepsSlot(m, p, u, t) ==
    IF p \in DOMAIN m.us /\ u \in DOMAIN m.us[p]
    THEN [m EXCEPT !.tasks = Append(@,
             NewTask(p, Env("user_left", u, <<HandleOf(m, p, u), 0>>, t, {}), u,
                     Handles(m, p)))]
    ELSE m

\* ConnectionManager.disconnect
Disconnect(m, p, u, t) ==
    LET ws == HandleOf(m, p, u)
        m1 == IF p \in DOMAIN m.ac
              THEN LET d == [i \in 1..Len(m.ac[p]) |->
                               IF i \in KeyIdx(m.ac[p], u)
                               THEN [m.ac[p][i] EXCEPT !.live = FALSE]
                               ELSE m.ac[p][i]]
                   IN  IF LiveCount(d) = 0
                       THEN [m EXCEPT !.ac = Del(m.ac, p), !.obj[p] = @ + 1]
                       ELSE [m EXCEPT !.ac = Put(m.ac, p, d)]
              ELSE m
        has == p \in DOMAIN m1.us
        info == IF has /\ u \in DOMAIN m1.us[p] THEN m1.us[p][u].user_info ELSE NoInfo
        m2 == IF has
              THEN LET s == Del(m1.us[p], u)
                   IN  IF DOMAIN s = {}
                       THEN [m1 EXCEPT !.us = Del(m1.us, p)]
                       ELSE [m1 EXCEPT !.us = Put(m1.us, p, s)]
              ELSE m1
    IN  IF has /\ LeaveAnnounced(info)
        THEN [m2 EXCEPT !.tasks = Append(@,
                 NewTask(p, Env("user_left", u, <<ws, 0>>, t, {}), u, Handles(m2, p)))]
        ELSE m2

\* (mutant) the last-activity update writes the session entry whether or
\* not the member is there
TouchCreates(m, p, u, t) ==
    LET s0 == IF p \in DOMAIN m.us THEN m.us[p] ELSE <<>>
    IN  [m EXCEPT !.us = Put(m.us, p, Put(s0, u,
            [user_info |-> UserInfo(u), connected_at |-> t, last_activity |-> t]))]

\* the last-activity update of the receive loop
Touch(m, p, u, t) ==
    IF p \in DOMAIN m.us /\ u \in DOMAIN m.us[p]
    THEN [m EXCEPT !.us = Put(m.us, p, Put(m.us[p], u,
               [m.us[p][u] EXCEPT !.last_activity = t]))]
    ELSE m

\* (mutant) the listing holds the sessions of every project
get_project_users_all(m, p) ==
    {[user_id |-> u, user_info |-> m.us[q][u].user_info,
      connected_at |-> m.us[q][u].connected_at,
      last_activity |-> m.us[q][u].last_activity] :
        <<q, u>> \in {x \in (DOMAIN m.us) \X Users : x[2] \in DOMAIN m.us[x[1]]}}

\* ConnectionManager.get_project_users
get_project_users(m, p) ==
    IF p \notin DOMAIN m.us THEN {}
    ELSE {[user_id |-> u, user_info |-> m.us[p][u].user_info,
           connected_at |-> m.us[p][u].connected_at,
           last_activity |-> m.us[p][u].last_activity] : u \in DOMAIN m.us[p]}

\* ------------------------------------------------------------------- sends
\* websocket.send_text succeeds on a channel whose peer is there
CanDeliver(ws) == transport[ws] = "open"

\* (mutant) the envelope goes out on every connection
SendTextAll(m, ws, env) ==
    [m EXCEPT !.sent = [r \in Conns |->
        Append(m.sent[r], [env |-> env, ok |-> CanDeliver(r)])]]

\* one send_text call on connection ws
SendText(m, ws, env) ==
    [m EXCEPT !.sent[ws] = Append(@, [env |-> env, ok |-> CanDeliver(ws)])]

\* (mutant) the message is dropped without a send
send_personal_message_dropped(m, ws, env) == m

\* ConnectionManager.send_personal_message: a failure is logged, not raised
send_personal_message(m, ws, env) == SendText(m, ws, env)

\* --------------------------------------------------------------- broadcast
\* the dict iterator of the for loop, created over active_connections[p]
NewIter(m, p, excl, env) ==
    [proj |-> p, excl |-> excl, env |-> env, obj |-> m.obj[p], pos |-> 0,
     len |-> LiveCount(m.ac[p]), used |-> LiveCount(m.ac[p]), failed |-> <<>>,
     start |-> m.ac[p], tried |-> <<>>, dirty |-> FALSE, st |-> "running"]

SetMin(S) == CHOOSE x \in S : \A y \in S : x <= y

\* next() of the dict iterator: RuntimeError when the dict changed size (or is
\* no longer the registry's dict, which only happens once it was emptied), the
\* next entry that holds a value otherwise
IterNext(m, itr) ==
    IF itr.obj # m.obj[itr.proj] \/ itr.proj \notin DOMAIN m.ac
    THEN [kind |-> "raise", i |-> 0]
    ELSE LET d == m.ac[itr.proj]
             later == {i \in LiveIdx(d) : i > itr.pos}
         IN  IF itr.used # LiveCount(d) THEN [kind |-> "raise", i |-> 0]
             ELSE IF later = {} THEN [kind |-> "stop", i |-> 0]
             ELSE IF itr.len = 0 THEN [kind |-> "raise", i |-> 0]
             ELSE [kind |-> "item", i |-> SetMin(later)]

\* has the registry's dict of the call's project changed since the call began
Disturbed(m, itr) ==
    itr.dirty \/ itr.obj # m.obj[itr.proj] \/ m.ac[itr.proj] # itr.start

\* the exclude_user_id test of the loop
Excluded(itr, uid) == itr.excl # NoUser /\ uid = itr.excl

\* (mutant) the except branch logs the failure and forgets the recipient
NoteFailureLost(failed, uid, ok) == failed

\* the except branch of the loop: what failed_connections becomes
NoteFailure(failed, uid, ok) == IF ok THEN failed ELSE Append(failed, uid)

\* the clean-up loop over failed_connections
RECURSIVE CleanUp(_, _, _, _)
CleanUp(m, p, failed, t) ==
    IF failed = <<>> THEN m
    ELSE CleanUp(Disconnect(m, p, Head(failed), t), p, Tail(failed), t)

\* broadcast_to_project from one resumption to the next suspension (the await
\* of a send_text), to its return, or to the RuntimeError next() raises
RECURSIVE BcastRun(_, _, _)
BcastRun(m, itr, t) ==
    LET n == IterNext(m, itr)
        dirty == Disturbed(m, itr)
    IN  CASE n.kind = "raise" ->
               [m |-> m, it |-> [itr EXCEPT !.st = "raised", !.dirty = dirty]]
          [] n.kind = "stop" ->
               [m |-> CleanUp(m, itr.proj, itr.failed, t),
                it |-> [itr EXCEPT !.st = "returned", !.dirty = dirty]]
          [] OTHER ->
               LET e == m.ac[itr.proj][n.i]
                   it1 == [itr EXCEPT !.pos = n.i, !.len = @ - 1, !.dirty = dirty]
               IN  IF Excluded(itr, e.uid) THEN BcastRun(m, it1, t)
                   ELSE [m |-> SendText(m, e.ws, itr.env),
                         it |-> [it1 EXCEPT
                            !.tried = Append(@, [uid |-> e.uid, ws |-> e.ws,
                                                 ok |-> CanDeliver(e.ws)]),
                            !.failed = NoteFailure(@, e.uid, CanDeliver(e.ws))]]

\* the value a broadcast_to_project call hands its caller: the function ends
\* without a return statement
BroadcastReturn(itr) == <<>>

\* a call of broadcast_to_project up to its first suspension
BcastStart(m, p, env, excl, t) ==
    IF p \notin DOMAIN m.ac
    THEN [m |-> m, it |-> [NoIter EXCEPT !.proj = p, !.excl = excl, !.env = env,
                                         !.st = "returned"]]
    ELSE BcastRun(m, NewIter(m, p, excl, env), t)

ApplyMgr(m) ==
    /\ ac' = m.ac
    /\ us' = m.us
    /\ obj' = m.obj
    /\ tasks' = m.tasks
    /\ sent' = m.sent

\* ----------------------------------------------------------- the handlers
Init ==
    /\ quota = [conns |-> NConn, msgs |-> MaxMsgs, drops |-> MaxDrops, queries |-> 0]
    /\ resp = <<>>
    /\ pc = [c \in Conns |-> "idle"]
    /\ cuser = [c \in Conns |-> NoUser]
    /\ cproj = [c \in Conns |-> MissingProject]
    /\ ccred = [c \in Conns |-> "invalid"]
    /\ transport = [c \in Conns |-> "none"]
    /\ closeCode = [c \in Conns |-> 0]
    /\ ac = <<>>
    /\ us = <<>>
    /\ obj = [p \in Projects |-> 0]
    /\ tasks = <<>>
    /\ it = [c \in Conns |-> NoIter]
    /\ sent = [c \in Conns |-> <<>>]
    /\ hist = [c \in Conns |-> <<>>]
    /\ edit_log = <<>>
    /\ now = 0

\* the handler ends: websocket.close(code) when code # 0, a plain return
\* after WebSocketDisconnect when code = 0
Finish(c, code) ==
    /\ pc' = [pc EXCEPT ![c] = "closed"]
    /\ closeCode' = [closeCode EXCEPT ![c] = code]
    /\ transport' = [transport EXCEPT ![c] = IF @ = "broken" THEN @ ELSE "closed"]

\* the finally clause of the receive loop, then the outer except clause
Fault(c, m, t) ==
    /\ ApplyMgr(Disconnect(m, cproj[c], cuser[c], t))
    /\ Finish(c, CodeInternal)

Handshaking ==
    {c \in Conns : pc[c] \in {"authenticating", "authorizing", "accepting", "accepted"}}

\* payloads received and peers gone so far
RECURSIVE ReceivedBy(_)
ReceivedBy(c) == IF c = 0 THEN 0 ELSE Len(hist[c]) + ReceivedBy(c - 1)
Received == ReceivedBy(NConn)
Dropped == Cardinality({c \in Conns : transport[c] = "broken"})

\* a client opens a connection to /projects/{project_id}?token=...
\* (connections are numbered in the order they open)
Start(c) ==
    /\ pc[c] = "idle"
    /\ c <= quota.conns
    /\ \A b \in Conns : b < c => pc[b] # "idle"
    /\ Cardinality(Handshaking) < MaxHandshaking
    /\ \E u \in Identities(c), p \in Projects \cup {MissingProject}, k \in Creds :
        /\ cuser' = [cuser EXCEPT ![c] = u]
        /\ cproj' = [cproj EXCEPT ![c] = p]
        /\ ccred' = [ccred EXCEPT ![c] = k]
    /\ pc' = [pc EXCEPT ![c] = "authenticating"]
    /\ UNCHANGED <<transport, closeCode, ac, us, obj, tasks, it, sent, hist,
                   edit_log, now>>
    /\ UNCHANGED <<resp, quota>>

\* get_websocket_user: every failure is an HTTPException, which the outer
\* except clause of project_websocket turns into close(4500)
Authenticate(c) ==
    /\ pc[c] = "authenticating"
    /\ IF ccred[c] = "valid"
       THEN /\ pc' = [pc EXCEPT ![c] = "authorizing"]
            /\ UNCHANGED <<closeCode, transport>>
       ELSE Finish(c, CodeInternal)
    /\ UNCHANGED <<cuser, cproj, ccred, ac, us, obj, tasks, it, sent, hist,
                   edit_log, now>>
    /\ UNCHANGED <<resp, quota>>

\* (mutant) the access check lets every identity into a project that exists
AuthorizeAnyone(c) ==
    /\ pc[c] = "authorizing"
    /\ IF cproj[c] \notin Projects THEN Finish(c, CodeNotFound)
       ELSE /\ pc' = [pc EXCEPT ![c] = "accepting"]
            /\ UNCHANGED <<closeCode, transport>>
    /\ UNCHANGED <<cuser, cproj, ccred, ac, us, obj, tasks, it, sent, hist,
                   edit_log, now>>
    /\ UNCHANGED <<resp, quota>>

\* the project lookup and the access check
Authorize(c) ==
    /\ pc[c] = "authorizing"
    /\ IF cproj[c] \notin Projects THEN Finish(c, CodeNotFound)
       ELSE IF ~ProjectPublic[cproj[c]] /\ ProjectOwner[cproj[c]] # cuser[c]
       THEN Finish(c, CodeForbidden)
       ELSE /\ pc' = [pc EXCEPT ![c] = "accepting"]
            /\ UNCHANGED <<closeCode, transport>>
    /\ UNCHANGED <<cuser, cproj, ccred, ac, us, obj, tasks, it, sent, hist,
                   edit_log, now>>
    /\ UNCHANGED <<resp, quota>>

\* manager.connect: await websocket.accept()
Accept(c) ==
    /\ pc[c] = "accepting"
    /\ pc' = [pc EXCEPT ![c] = "accepted"]
    /\ transport' = [transport EXCEPT ![c] = "open"]
    /\ UNCHANGED <<cuser, cproj, ccred, closeCode, ac, us, obj, tasks, it, sent,
                   hist, edit_log, now>>
    /\ UNCHANGED <<resp, quota>>

\* the list connect() sends the new connection
ActiveUsers(m, p, u) ==
    IF p \in DOMAIN m.us THEN DOMAIN m.us[p] \ {u} ELSE {}

\* connect() after its user_joined broadcast came to r: the active_users
\* message, or the RuntimeError leaving connect(), which project_websocket
\* calls outside the try whose finally clause deregisters
AfterJoinBcast(c, r, t) ==
    /\ it' = [it EXCEPT ![c] = r.it]
    /\ CASE r.it.st = "running" ->
              /\ ApplyMgr(r.m)
              /\ pc' = [pc EXCEPT ![c] = "join_bcast"]
              /\ UNCHANGED <<closeCode, transport>>
         [] r.it.st = "returned" ->
              /\ ApplyMgr(send_personal_message(r.m, c,
                    Env("active_users", NoUser, NoMid, t,
                        ActiveUsers(r.m, cproj[c], cuser[c]))))
              /\ pc' = [pc EXCEPT ![c] = "recv"]
              /\ UNCHANGED <<closeCode, transport>>
         [] OTHER ->
              /\ ApplyMgr(r.m)
              /\ Finish(c, CodeInternal)

\* connect() once accept() has returned: the registration and the
\* user_joined broadcast up to its first suspension
Join(c) ==
    /\ pc[c] = "accepted"
    /\ \E t \in Times :
        /\ now' = t
        /\ AfterJoinBcast(c,
              BcastStart(Register(Mgr, cproj[c], cuser[c], c, t), cproj[c],
                         Env("user_joined", cuser[c], <<c, 0>>, t, {}),
                         cuser[c], t),
              t)
    /\ UNCHANGED <<cuser, cproj, ccred, hist, edit_log>>
    /\ UNCHANGED <<resp, quota>>

JoinBcastStep(c) ==
    /\ pc[c] = "join_bcast"
    /\ \E t \in Times :
        /\ now' = t
        /\ AfterJoinBcast(c, BcastRun(Mgr, it[c], t), t)
    /\ UNCHANGED <<cuser, cproj, ccred, hist, edit_log>>
    /\ UNCHANGED <<resp, quota>>

\* the receive loop after a broadcast of an inbound envelope came to r
AfterMsgBcast(c, r, t) ==
    /\ it' = [it EXCEPT ![c] = r.it]
    /\ CASE r.it.st = "running" ->
              /\ ApplyMgr(r.m)
              /\ pc' = [pc EXCEPT ![c] = "msg_bcast"]
              /\ UNCHANGED <<closeCode, transport>>
         [] r.it.st = "returned" ->
              /\ ApplyMgr(r.m)
              /\ pc' = [pc EXCEPT ![c] = "recv"]
              /\ UNCHANGED <<closeCode, transport>>
         [] OTHER -> Fault(c, r.m, t)

\* the id of the inbound envelope handler c is working on
CurMid(c) == <<c, Len(hist[c])>>

\* what a client may write in the user_id field of an envelope it sends on
\* c: nothing, or the id of another user
Claims(c) == {NoUser, (cuser[c] % NConn) + 1}

\* the dict json.loads makes of an inbound envelope: its type, the fields the
\* client chose (mid stands for them) and the client's own user_id and
\* timestamp fields
Inbound(kind, mid, claim) == Env(kind, claim, mid, ClientTs, {})

\* the fields project_websocket writes after **message
Stamp(c, t) == [user |-> cuser[c], ts |-> t]

\* (mutant) {**stamp, **message}: a key of the client's wins
MergeLeft(message, stamp) == message

\* {**message, **stamp}: a key of both takes the value of the right operand
Merge(message, stamp) ==
    [f \in DOMAIN message \cup DOMAIN stamp |->
        IF f \in DOMAIN stamp THEN stamp[f] ELSE message[f]]

\* the copy of an inbound envelope that is fanned out
Copy(c, message, t) == Merge(message, Stamp(c, t))

\* (mutant) an unknown type is handled as a cursor
BranchCursor(k) == IF k \in {"edit", "ping", "badjson", "nonobject"} THEN k ELSE "cursor"

\* the branch of the loop body a payload of kind k takes: the except clause
\* (badjson), the AttributeError of message.get (nonobject), the three known
\* types, the else branch
Branch(k) ==
    IF k \in {"edit", "cursor", "ping", "badjson", "nonobject"} THEN k ELSE "unknown"

\* (mutant) the next payload is taken while the broadcast of the one before
\* is still suspended in a send
AtReceiveOrSending(c) == pc[c] \in {"recv", "msg_bcast"}

\* the handler of c is suspended in receive_text(): the loop body of the
\* payload before has run to its end
AtReceive(c) == pc[c] = "recv"

\* receive_text() returns a payload of kind k, and the loop body runs to its
\* next await
Receive(c, k, claim) ==
    /\ AtReceive(c)
    /\ transport[c] = "open"
    /\ Received < quota.msgs
    /\ claim \in (IF k \in {"edit", "cursor"} THEN Claims(c) ELSE {NoUser})
    /\ hist' = [hist EXCEPT ![c] = Append(@, [kind |-> k, commit |-> "na",
                                              claim |-> claim])]
    /\ \E t \in Times :
        /\ now' = t
        /\ LET mid == <<c, Len(hist[c]) + 1>>
               m1 == Touch(Mgr, cproj[c], cuser[c], t)
           IN  CASE Branch(k) = "badjson" ->
                      /\ ApplyMgr(send_personal_message(Mgr, c,
                             Env("error", NoUser, mid, t, {})))
                      /\ UNCHANGED <<pc, closeCode, transport, it>>
                 [] Branch(k) = "nonobject" ->
                      /\ Fault(c, Mgr, t)
                      /\ UNCHANGED it
                 [] Branch(k) = "edit" ->
                      /\ ApplyMgr(m1)
                      /\ pc' = [pc EXCEPT ![c] = "commit"]
                      /\ UNCHANGED <<closeCode, transport, it>>
                 [] Branch(k) = "cursor" ->
                      AfterMsgBcast(c, BcastStart(m1, cproj[c],
                          Copy(c, Inbound(k, mid, claim), t), cuser[c], t), t)
                 [] Branch(k) = "ping" ->
                      /\ ApplyMgr(send_personal_message(m1, c,
                             Env("pong", NoUser, mid, t, {})))
                      /\ UNCHANGED <<pc, closeCode, transport, it>>
                 [] OTHER ->
                      /\ ApplyMgr(m1)
                      /\ UNCHANGED <<pc, closeCode, transport, it>>
    /\ UNCHANGED <<cuser, cproj, ccred, edit_log>>
    /\ UNCHANGED <<resp, quota>>

\* the row handle_edit_message adds (the columns the envelope fills are
\* stood for by the envelope's identity mid)
EditRow(c, mid) ==
    [project_id |-> cproj[c], user_id |-> cuser[c], mid |-> mid]

\* (mutant) the commit writes the row over what the table held
AddRowOver(log, row) == <<row>>

\* db.add(edit_history) followed by a commit that succeeds: an INSERT
AddRow(log, row) == Append(log, row)

\* the inbound envelope handler c is working on
CurMsg(c) == Inbound(hist[c][Len(hist[c])].kind, CurMid(c), hist[c][Len(hist[c])].claim)

\* handle_edit_message: await db.commit() returns (ok) or raises; when it
\* returns, handle_edit_message returns and the edit is broadcast
Commit(c, ok) ==
    /\ pc[c] = "commit"
    /\ hist' = [hist EXCEPT ![c][Len(hist[c])].commit = IF ok THEN "ok" ELSE "fail"]
    /\ IF ok
       THEN \E t \in TimesFrom(now) :
              /\ now' = t
              /\ edit_log' = AddRow(edit_log, EditRow(c, CurMid(c)))
              /\ AfterMsgBcast(c, BcastStart(Mgr, cproj[c],
                     Copy(c, CurMsg(c), t), cuser[c], t), t)
       ELSE /\ pc' = [pc EXCEPT ![c] = "rollback"]
            /\ UNCHANGED <<closeCode, transport, ac, us, obj, tasks, it, sent,
                           edit_log, now>>
    /\ UNCHANGED <<cuser, cproj, ccred>>
    /\ UNCHANGED <<resp, quota>>

\* the except clause of handle_edit_message: await db.rollback() returns,
\* handle_edit_message returns normally and the edit is broadcast
Rollback(c) ==
    /\ pc[c] = "rollback"
    /\ \E t \in Times :
        /\ now' = t
        /\ AfterMsgBcast(c, BcastStart(Mgr, cproj[c],
               Copy(c, CurMsg(c), t), cuser[c], t), t)
    /\ UNCHANGED <<cuser, cproj, ccred, hist, edit_log>>
    /\ UNCHANGED <<resp, quota>>

MsgBcastStep(c) ==
    /\ pc[c] = "msg_bcast"
    /\ \E t \in Times :
        /\ now' = t
        /\ AfterMsgBcast(c, BcastRun(Mgr, it[c], t), t)
    /\ UNCHANGED <<cuser, cproj, ccred, hist, edit_log>>
    /\ UNCHANGED <<resp, quota>>

\* the peer of c goes away (close frame, network error)
PeerDrop(c) ==
    /\ transport[c] = "open"
    /\ Dropped < quota.drops
    /\ transport' = [transport EXCEPT ![c] = "broken"]
    /\ UNCHANGED <<pc, cuser, cproj, ccred, closeCode, ac, us, obj, tasks, it,
                   sent, hist, edit_log, now>>
    /\ UNCHANGED <<resp, quota>>

\* receive_text() raises WebSocketDisconnect: the finally clause deregisters
Disconnected(c) ==
    /\ pc[c] = "recv"
    /\ transport[c] = "broken"
    /\ \E t \in Times :
        /\ now' = t
        /\ ApplyMgr(Disconnect(Mgr, cproj[c], cuser[c], t))
    /\ Finish(c, 0)
    /\ UNCHANGED <<cuser, cproj, ccred, it, hist, edit_log>>
    /\ UNCHANGED <<resp, quota>>

\* at most one task is created per registration that is undone
TaskIds == 1..NConn

\* a detached user_left broadcast runs to its next suspension; a RuntimeError
\* ends the task and nobody retrieves it
TaskStep(i) ==
    /\ i \in 1..Len(tasks)
    /\ tasks[i].it.st \in {"none", "running"}
    /\ \E t \in Times :
        /\ now' = t
        /\ LET k == tasks[i]
               r == IF k.it.st = "none"
                    THEN BcastStart(Mgr, k.proj, k.env, k.excl, t)
                    ELSE BcastRun(Mgr, k.it, t)
           IN  ApplyMgr([r.m EXCEPT !.tasks[i].it = r.it])
    /\ UNCHANGED <<pc, cuser, cproj, ccred, transport, closeCode, it, hist,
                   edit_log>>
    /\ UNCHANGED <<resp, quota>>

Next ==
    \/ \E c \in Conns : Start(c)
    \/ \E c \in Conns : Authenticate(c)
    \/ \E c \in Conns : Authorize(c)
    \/ \E c \in Conns : Accept(c)
    \/ \E c \in Conns : Join(c)
    \/ \E c \in Conns : JoinBcastStep(c)
    \/ \E c \in Conns, k \in MsgKinds, claim \in Users \cup {NoUser} : Receive(c, k, claim)
    \/ \E c \in Conns, ok \in BOOLEAN : Commit(c, ok)
    \/ \E c \in Conns : Rollback(c)
    \/ \E c \in Conns : MsgBcastStep(c)
    \/ \E c \in Conns : PeerDrop(c)
    \/ \E c \in Conns : Disconnected(c)
    \/ \E i \in TaskIds : TaskStep(i)

Spec == Init /\ [][Next]_vars

\* ------------------------------------------------- the member-list endpoint
\* the members of a set of session entries as a list (by user id)
RECURSIVE ListOf(_)
ListOf(S) ==
    IF S = {} THEN <<>>
    ELSE LET x == CHOOSE y \in S : \A z \in S : y.user_id <= z.user_id
         IN  <<x>> \o ListOf(S \ {x})

\* get_project_active_users: the body of the response
Response(p, t) ==
    LET users == ListOf(get_project_users(Mgr, p))
    IN  [project_id |-> p, active_users |-> users, total |-> Len(users),
         timestamp |-> t]

\* GET /projects/{project_id}/users is served
Query(p) ==
    /\ Len(resp) < quota.queries
    /\ resp' = Append(resp, Response(p, now))
    /\ UNCHANGED <<pc, cuser, cproj, ccred, transport, closeCode, ac, us, obj,
                   tasks, it, sent, hist, edit_log, now, quota>>

\* the second workload: fewer connections; a run carries SmallMsgs payloads,
\* or one payload fewer and SmallQueries member-list requests
SmallQuotas ==
    {[conns |-> SmallConns, msgs |-> SmallMsgs, drops |-> SmallDrops, queries |-> 0],
     [conns |-> SmallConns, msgs |-> SmallMsgs - 1, drops |-> SmallDrops,
      queries |-> SmallQueries]}

InitSmall ==
    /\ quota \in SmallQuotas
    /\ resp = <<>>
    /\ pc = [c \in Conns |-> "idle"]
    /\ cuser = [c \in Conns |-> NoUser]
    /\ cproj = [c \in Conns |-> MissingProject]
    /\ ccred = [c \in Conns |-> "invalid"]
    /\ transport = [c \in Conns |-> "none"]
    /\ closeCode = [c \in Conns |-> 0]
    /\ ac = <<>>
    /\ us = <<>>
    /\ obj = [p \in Projects |-> 0]
    /\ tasks = <<>>
    /\ it = [c \in Conns |-> NoIter]
    /\ sent = [c \in Conns |-> <<>>]
    /\ hist = [c \in Conns |-> <<>>]
    /\ edit_log = <<>>
    /\ now = 0

NextSmall ==
    \/ \E c \in Conns : Start(c)
    \/ \E c \in Conns : Authenticate(c)
    \/ \E c \in Conns : Authorize(c)
    \/ \E c \in Conns : Accept(c)
    \/ \E c \in Conns : Join(c)
    \/ \E c \in Conns : JoinBcastStep(c)
    \/ \E c \in Conns, k \in MsgKinds, claim \in Users \cup {NoUser} : Receive(c, k, claim)
    \/ \E c \in Conns, ok \in BOOLEAN : Commit(c, ok)
    \/ \E c \in Conns : Rollback(c)
    \/ \E c \in Conns : MsgBcastStep(c)
    \/ \E c \in Conns : PeerDrop(c)
    \/ \E c \in Conns : Disconnected(c)
    \/ \E i \in TaskIds : TaskStep(i)
    \/ \E p \in Projects \cup {MissingProject} : Query(p)

SpecSmall == InitSmall /\ [][NextSmall]_vars

\* ------------------------------------------------- the failure cascade
\* a workload for the cascade: CascadeConns users have joined project p1 one
\* after the other and none has sent anything; from there peers go away,
\* handlers end and the detached user_left broadcasts run
CascadeConns == 3
CascadeDrops == 2

\* the slot connect() made for connection c
SlotOf(c) == [uid |-> c, ws |-> c, live |-> TRUE]

\* the user_joined broadcast of connection c, as it returned
JoinCallOf(c) ==
    [NoIter EXCEPT !.proj = "p1", !.excl = c,
                   !.env = Env("user_joined", c, <<c, 0>>, 0, {}),
                   !.pos = c, !.used = c,
                   !.start = [i \in 1..c |-> SlotOf(i)],
                   !.tried = [i \in 1..(c - 1) |-> [uid |-> i, ws |-> i, ok |-> TRUE]],
                   !.st = "returned"]

\* what was sent to connection c: its active_users list, then the
\* user_joined of every connection that joined after it
JoinSentOf(c) ==
    <<[env |-> Env("active_users", NoUser, NoMid, 0, 1..(c - 1)), ok |-> TRUE]>>
    \o [j \in 1..(CascadeConns - c) |->
          [env |-> Env("user_joined", c + j, <<c + j, 0>>, 0, {}), ok |-> TRUE]]

InitCascade ==
    /\ quota = [conns |-> CascadeConns, msgs |-> 0, drops |-> CascadeDrops,
                queries |-> 0]
    /\ resp = <<>>
    /\ pc = [c \in Conns |-> "recv"]
    /\ cuser = [c \in Conns |-> c]
    /\ cproj = [c \in Conns |-> "p1"]
    /\ ccred = [c \in Conns |-> "valid"]
    /\ transport = [c \in Conns |-> "open"]
    /\ closeCode = [c \in Conns |-> 0]
    /\ ac = Put(<<>>, "p1", [i \in 1..CascadeConns |-> SlotOf(i)])
    /\ us = Put(<<>>, "p1", [u \in 1..CascadeConns |->
                [user_info |-> UserInfo(u), connected_at |-> 0, last_activity |-> 0]])
    /\ obj = [p \in Projects |-> 0]
    /\ tasks = <<>>
    /\ it = [c \in Conns |-> JoinCallOf(c)]
    /\ sent = [c \in Conns |-> JoinSentOf(c)]
    /\ hist = [c \in Conns |-> <<>>]
    /\ edit_log = <<>>
    /\ now = 0

NextCascade ==
    \/ \E c \in Conns : PeerDrop(c)
    \/ \E c \in Conns : Disconnected(c)
    \/ \E i \in TaskIds : TaskStep(i)

\* the event loop runs every task that is ready: a detached broadcast that
\* can take a step takes it
SpecCascade ==
    InitCascade /\ [][NextCascade]_vars /\ WF_vars(\E i \in TaskIds : TaskStep(i))

\* ------------------------------------------------------ reading the state
Range(q) == {q[i] : i \in 1..Len(q)}

\* the positions of sent[r] that hold an envelope of this type and id
SentIdx(r, type, mid) ==
    {i \in 1..Len(sent[r]) : sent[r][i].env.type = type /\ sent[r][i].env.mid = mid}

\* the rows of edit_history written for inbound envelope mid
Rows(mid) == {i \in 1..Len(edit_log) : edit_log[i].mid = mid}

\* the handler of c is done with its k-th inbound payload
Handled(c, k) == k < Len(hist[c]) \/ pc[c] \in {"recv", "closed"}

\* the inbound edit envelopes whose commit came out as res
Edits(res) ==
    {mid \in Conns \X (1..quota.msgs) :
        /\ mid[2] <= Len(hist[mid[1]])
        /\ hist[mid[1]][mid[2]].kind = "edit"
        /\ hist[mid[1]][mid[2]].commit = res}

\* every broadcast_to_project call that is running or has ended
Calls == {it[c] : c \in Conns} \cup {tasks[i].it : i \in 1..Len(tasks)}

\* the handles a call found registered when it began, the excluded member's
\* not among them
Recipients(call) ==
    {call.start[i].ws : i \in {j \in LiveIdx(call.start) : ~Excluded(call, call.start[j].uid)}}

\* the handles a call tried to send to
Tried(call) == {call.tried[i].ws : i \in 1..Len(call.tried)}

\* c holds the registry slot of its (project, user) key
Registered(c) == HandleOf(Mgr, cproj[c], cuser[c]) = c

\* the users get_project_users lists for p
Listed(p) == {x.user_id : x \in get_project_users(Mgr, p)}

\* ------------------------------------------------------------------ claims

\* C1: an edit envelope whose commit raises is fanned out to nobody, and its
\* sender is sent exactly one error acknowledgment for it.
C1_FailedEditNotBroadcast ==
    \A mid \in Edits("fail") :
        /\ \A r \in Conns : SentIdx(r, "edit", mid) = {}
        /\ Handled(mid[1], mid[2]) =>
              Cardinality(SentIdx(mid[1], "error", mid)) = 1

\* C2: an edit envelope whose commit succeeds leaves exactly one row, and once
\* it is handled every member that was registered when its broadcast began and
\* still is (the sender apart) was sent exactly one copy, the sender none, each
\* copy with the sender's user id and a timestamp of the server's clock.
C2_PersistedEditBroadcast ==
    \A mid \in Edits("ok") :
        Handled(mid[1], mid[2]) =>
            /\ Cardinality(Rows(mid)) = 1
            /\ \A r \in Conns :
                /\ cuser[r] = cuser[mid[1]] => SentIdx(r, "edit", mid) = {}
                /\ ( /\ it[mid[1]].env.mid = mid
                     /\ r \in Recipients(it[mid[1]])
                     /\ Registered(r) )
                   => Cardinality(SentIdx(r, "edit", mid)) = 1
                /\ \A i \in SentIdx(r, "edit", mid) :
                    /\ sent[r][i].env.user = cuser[mid[1]]
                    /\ sent[r][i].env.ts \in 0..now

\* C3: a copy of an edit envelope is sent only once the row of that envelope
\* is in edit_history.
C3_PersistBeforeBroadcast ==
    \A r \in Conns : \A i \in 1..Len(sent[r]) :
        sent[r][i].env.type = "edit" => Rows(sent[r][i].env.mid) # {}

\* C4: a broadcast call that has ended tried exactly one send to every handle
\* registered in the project when it began, the excluded member apart, none to
\* the excluded member, none twice and none outside the project.
C4_BroadcastReachesMembers ==
    \A call \in Calls :
        /\ \A i \in 1..Len(call.tried) :
            /\ ~Excluded(call, call.tried[i].uid)
            /\ cproj[call.tried[i].ws] = call.proj
            /\ \A j \in 1..Len(call.tried) : call.tried[j].ws = call.tried[i].ws => j = i
        /\ call.st \in {"returned", "raised"} => Tried(call) = Recipients(call)

FailedKept(call) ==
    \/ \E j \in 1..Len(call.tried) :
          ~call.tried[j].ok /\ call.tried[j].uid \notin Range(call.failed)
    \/ \E u \in Range(call.failed) :
          u \in Listed(call.proj) \/ HandleOf(Mgr, call.proj, u) # 0

C6_FailureNeverAborts ==
    \A call \in Calls :
        (call.failed # <<>> /\ call.st \in {"returned", "raised"}) =>
            /\ call.st = "returned"
            /\ Recipients(call) \subseteq Tried(call)

\* C7: once the user_joined broadcast of a new connection n has ended, every
\* handle registered before n (its set M) was sent exactly one user_joined for
\* n, n none, and n exactly one active_users listing exactly the users of M.
C7_JoinAnnounced ==
    \A n \in Conns :
        (it[n].env.type = "user_joined" /\ it[n].st \in {"returned", "raised"}) =>
            /\ \A r \in Recipients(it[n]) :
                  Cardinality(SentIdx(r, "user_joined", <<n, 0>>)) = 1
            /\ SentIdx(n, "user_joined", <<n, 0>>) = {}
            /\ Cardinality(SentIdx(n, "active_users", NoMid)) = 1
            /\ \A i \in SentIdx(n, "active_users", NoMid) :
                  sent[n][i].env.users = {cuser[r] : r \in Recipients(it[n])}

\* C8: once a departed member's user_left broadcast has ended, every member
\* that remained, is still registered and has a working channel was sent
\* exactly one user_left naming the departed.
C8_LeaveAnnounced ==
    \A i \in 1..Len(tasks) :
        (tasks[i].env.type = "user_left" /\ tasks[i].it.st \in {"returned", "raised"}) =>
            \A r \in tasks[i].rem :
                (Registered(r) /\ CanDeliver(r)) =>
                    Cardinality(SentIdx(r, "user_left", tasks[i].env.mid)) = 1

\* C9: a connection whose handler has ended holds no slot of the registry.
C9_NoSlotAfterTermination ==
    \A c \in Conns : pc[c] = "closed" => ~Registered(c)

\* the user_left broadcasts scheduled for the slot connection c registered
LeftTasks(c) ==
    {i \in 1..Len(tasks) : tasks[i].env.type = "user_left" /\ tasks[i].env.mid = <<c, 0>>}

\* C10: of two consecutive deregistrations of one (project, member) key the
\* second changes nothing and schedules no user_left, and the removal of a
\* registered slot is announced by one user_left broadcast, never two.
C10_DeregisterIdempotent ==
    /\ \A p \in Projects, u \in Users :
        /\ Disconnect(Disconnect(Mgr, p, u, now), p, u, now) = Disconnect(Mgr, p, u, now)
        /\ Len(Disconnect(Mgr, p, u, now).tasks) =
              Len(tasks) + (IF HandleOf(Mgr, p, u) # 0 THEN 1 ELSE 0)
    /\ \A c \in Conns : Cardinality(LeftTasks(c)) <= 1

\* a member was deregistered twice, by the clean-up of a broadcast whose send
\* to it failed and by its own handler's finally clause, and its departure is
\* announced once
C10_Witness ==
    \E call \in Calls, c \in Conns :
        /\ call.st = "returned"
        /\ \E j \in 1..Len(call.tried) : call.tried[j].ws = c /\ ~call.tried[j].ok
        /\ pc[c] = "closed" /\ closeCode[c] = 0
        /\ \A b \in Conns \ {c} : ~(cuser[b] = cuser[c] /\ cproj[b] = cproj[c])
        /\ Cardinality(LeftTasks(c)) = 1


\* C11: the registry holds at most one entry per (project, member) key, and a
\* project key is in a table exactly when the project has a registered
\* member: no empty inner table is seen at any suspension point.
C11_OneEntryPerKey ==
    /\ \A p \in DOMAIN ac :
        /\ LiveCount(ac[p]) > 0
        /\ \A u \in Users : Cardinality(KeyIdx(ac[p], u)) <= 1
    /\ \A p \in DOMAIN us : DOMAIN us[p] # {}
    /\ \A p \in Projects : p \in DOMAIN ac <=> Handles(Mgr, p) # {}

\* a key was registered a second time while it was registered, and the
\* project has since lost its last member and its entry
C11_Witness ==
    \E p \in Projects, a \in Conns, b \in Conns :
        /\ a # b /\ cuser[a] = cuser[b] /\ cproj[a] = p /\ cproj[b] = p
        /\ it[a].proj = p /\ it[a].st = "returned"
        /\ it[b].proj = p /\ it[b].st = "returned" /\ it[b].obj = 0
        /\ it[b].env.mid = <<b, 0>> /\ a < b
        /\ obj[p] = 1 /\ p \notin DOMAIN ac

\* envelopes that name connection c were sent to somebody, or c holds a slot
\* or has a task
LeftTrace(c) ==
    \/ sent[c] # <<>>
    \/ it[c] # NoIter
    \/ \E r \in Conns : \E i \in 1..Len(sent[r]) : sent[r][i].env.mid[1] = c
    \/ Registered(c)
    \/ LeftTasks(c) # {}

\* C12: a connection whose credential fails verification is closed with a
\* code of its own (not the code of an internal error, of a missing project
\* or of a refused access), gets no slot and causes no envelope.
C12_AuthFailureUnauthenticated ==
    \A c \in Conns :
        (ccred[c] = "invalid" /\ pc[c] \notin {"idle", "authenticating"}) =>
            /\ pc[c] = "closed"
            /\ closeCode[c] \notin {0, CodeInternal, CodeNotFound, CodeForbidden}
            /\ ~LeftTrace(c)

\* the access rule: the project exists and is public or owned by the identity
Allowed(c) ==
    /\ cproj[c] \in Projects
    /\ ProjectPublic[cproj[c]] \/ ProjectOwner[cproj[c]] = cuser[c]

\* the handler of c is past the access check
PastAuthorization(c) ==
    ccred[c] = "valid" /\ pc[c] \notin {"idle", "authenticating", "authorizing"}

\* C13: an authenticated connection goes on to the registration exactly when
\* its project exists and is public or its own; a missing project closes it
\* with 4404, a private project of another owner with 4403, and either
\* closure leaves the registry, the tasks and every outbox as they were.
C13_AccessCheck ==
    [][ /\ \A c \in Conns :
            PastAuthorization(c)' =>
                (/\ Allowed(c) <=> closeCode[c] \notin {CodeNotFound, CodeForbidden}
                 /\ ~Allowed(c) =>
                      /\ pc[c] = "closed"
                      /\ closeCode[c] = (IF cproj[c] \in Projects THEN CodeForbidden
                                         ELSE CodeNotFound)
                      /\ ~LeftTrace(c))'
        /\ \A c \in Conns :
            (pc[c] = "authorizing" /\ pc'[c] = "closed") =>
                UNCHANGED <<ac, us, obj, tasks, sent, it>>
        /\ \A c \in Conns :
            (pc[c] = "authorizing" /\ pc'[c] = "accepting") => Allowed(c)
      ]_vars

\* one connection was refused for a missing project, one for a private
\* project of another owner, and one was let in and registered
C13_Witness ==
    \E a \in Conns, b \in Conns, c \in Conns :
        /\ closeCode[a] = CodeNotFound /\ ccred[a] = "valid"
        /\ closeCode[b] = CodeForbidden /\ ccred[b] = "valid"
        /\ ccred[c] = "valid" /\ pc[c] = "recv" /\ Registered(c) /\ Allowed(c)


\* why the handler of a connection that was closed with a code ended
Cause(c) ==
    IF ccred[c] = "invalid" THEN "unauthenticated"
    ELSE IF cproj[c] \notin Projects THEN "not_found"
    ELSE IF ~Allowed(c) THEN "forbidden"
    ELSE "internal_error"

\* C14: two connections closed with the same close code were closed for the
\* same cause (unauthenticated, project not found, forbidden, internal error).
C14_CloseCodeTellsCause ==
    \A a \in Conns, b \in Conns :
        (closeCode[a] # 0 /\ closeCode[b] # 0 /\ closeCode[a] = closeCode[b]) =>
            Cause(a) = Cause(b)

\* handler c takes a payload of one of these kinds off its socket in this step
Takes(c, kinds) ==
    /\ Len(hist'[c]) = Len(hist[c]) + 1
    /\ hist'[c][Len(hist'[c])].kind \in kinds

\* the step leaves every slot and every session key of the registry in place
SlotsKept ==
    /\ ac' = ac
    /\ DOMAIN us' = DOMAIN us
    /\ \A p \in DOMAIN us : DOMAIN us'[p] = DOMAIN us[p]

\* C15: a payload that is not JSON, or is JSON but not an object, gets its
\* sender exactly one error envelope and nothing else happens: nothing is sent
\* to anybody else, no row is written, the handler goes on receiving and the
\* registry keeps every slot.
C15_UndecodableReported ==
    [][ \A c \in Conns :
          Takes(c, {"badjson", "nonobject"}) =>
              /\ Len(sent'[c]) = Len(sent[c]) + 1
              /\ sent'[c][Len(sent'[c])].env.type = "error"
              /\ \A r \in Conns \ {c} : sent'[r] = sent[r]
              /\ edit_log' = edit_log
              /\ tasks' = tasks
              /\ pc'[c] = "recv"
              /\ closeCode' = closeCode
              /\ SlotsKept
      ]_vars

\* C16: an envelope whose type is not edit, cursor or ping causes no send to
\* anybody, no row and no task; the handler goes on receiving, nothing is
\* closed and the registry keeps every slot.
C16_UnknownTypeIgnored ==
    [][ \A c \in Conns :
          Takes(c, MsgKinds \ {"edit", "cursor", "ping", "badjson", "nonobject"}) =>
              /\ sent' = sent
              /\ edit_log' = edit_log
              /\ tasks' = tasks
              /\ pc'[c] = "recv"
              /\ closeCode' = closeCode
              /\ transport' = transport
              /\ SlotsKept
      ]_vars

\* a member that shares its project with another member sent an envelope of
\* an unknown type and is still receiving
C16_Witness ==
    \E c \in Conns, r \in Conns :
        /\ r # c /\ cproj[r] = cproj[c]
        /\ Registered(c) /\ Registered(r)
        /\ pc[c] = "recv" /\ pc[r] = "recv"
        /\ \E k \in 1..Len(hist[c]) : hist[c][k].kind = "other"


\* the inbound envelopes of this kind received so far
Inbounds(kind) ==
    {mid \in Conns \X (1..quota.msgs) :
        mid[2] <= Len(hist[mid[1]]) /\ hist[mid[1]][mid[2]].kind = kind}

\* C17: a cursor envelope never leaves a row in edit_history, and once it is
\* handled every member that was registered when its broadcast began and
\* still is (the sender apart) was sent exactly one copy, the sender none,
\* each copy with the sender's user id and a timestamp of the server's clock.
C17_CursorBroadcastOnly ==
    \A mid \in Inbounds("cursor") :
        /\ Rows(mid) = {}
        /\ Handled(mid[1], mid[2]) =>
            \A r \in Conns :
                /\ cuser[r] = cuser[mid[1]] => SentIdx(r, "cursor", mid) = {}
                /\ ( /\ it[mid[1]].env.mid = mid
                     /\ r \in Recipients(it[mid[1]])
                     /\ Registered(r) )
                   => Cardinality(SentIdx(r, "cursor", mid)) = 1
                /\ \A i \in SentIdx(r, "cursor", mid) :
                    /\ sent[r][i].env.user = cuser[mid[1]]
                    /\ sent[r][i].env.ts \in 0..now

\* the step changes of user_sessions nothing but the last_activity of (p, u)
OnlyTouched(p, u) ==
    /\ DOMAIN us' = DOMAIN us
    /\ \A q \in DOMAIN us :
        /\ DOMAIN us'[q] = DOMAIN us[q]
        /\ \A v \in DOMAIN us[q] :
            \/ us'[q][v] = us[q][v]
            \/ q = p /\ v = u /\ us'[q][v] = [us[q][v] EXCEPT !.last_activity = now']

\* C18: a ping is answered in the same step with one pong on the connection
\* it came on, nothing is sent on another connection, no broadcast starts, no
\* row and no task is made, and of the registry only the last_activity of the
\* sender may change.
C18_PingPong ==
    [][ \A c \in Conns :
          Takes(c, {"ping"}) =>
              /\ Len(sent'[c]) = Len(sent[c]) + 1
              /\ sent'[c][Len(sent'[c])].env.type = "pong"
              /\ \A i \in 1..Len(sent[c]) : sent'[c][i] = sent[c][i]
              /\ \A r \in Conns \ {c} : sent'[r] = sent[r]
              /\ it' = it
              /\ edit_log' = edit_log
              /\ tasks' = tasks
              /\ ac' = ac
              /\ OnlyTouched(cproj[c], cuser[c])
              /\ pc'[c] = "recv"
      ]_vars

\* a member that shares its project with another member sent a ping and has
\* its pong
C18_Witness ==
    \E c \in Conns, r \in Conns :
        /\ r # c /\ cproj[r] = cproj[c]
        /\ Registered(c) /\ Registered(r)
        /\ \E k \in 1..Len(hist[c]) :
            /\ hist[c][k].kind = "ping"
            /\ Cardinality(SentIdx(c, "pong", <<c, k>>)) = 1

\* C19: when a broadcast that a handler runs ends after a send of its own
\* failed, the handler goes on receiving and keeps its slot, every peer whose
\* send failed has lost its slot and has a user_left broadcast scheduled,
\* and no other member has lost its slot in that step.
C19_FailedPeerLeaves ==
    [][ \A c \in Conns :
          ( /\ it'[c] # it[c]
            /\ it'[c].st \in {"returned", "raised"}
            /\ it'[c].failed # <<>> ) =>
              /\ pc'[c] = "recv"
              /\ Registered(c) => Registered(c)'
              /\ \A j \in 1..Len(it'[c].tried) :
                    ~it'[c].tried[j].ok =>
                        /\ (HandleOf(Mgr, it[c].proj, it[c].tried[j].uid) = 0)'
                        /\ (LeftTasks(it[c].tried[j].ws) # {})'
              /\ \A r \in Conns :
                    (Registered(r) /\ cuser[r] \notin Range(it'[c].failed)) => Registered(r)'
      ]_vars

\* C20: every copy of an edit or cursor envelope that is sent carries the
\* user id of the connection it came in on and a reading of the server's
\* clock, whatever the client wrote in those fields, and the type and the
\* other fields of the inbound envelope as they came.
C20_CopiesStamped ==
    \A r \in Conns : \A i \in 1..Len(sent[r]) :
        sent[r][i].env.type \in {"edit", "cursor"} =>
            LET e == sent[r][i].env
            IN  /\ e.mid[1] \in Conns
                /\ e.mid[2] \in 1..Len(hist[e.mid[1]])
                /\ e.user = cuser[e.mid[1]]
                /\ e.ts \in 0..now
                /\ e.type = hist[e.mid[1]][e.mid[2]].kind
                /\ e.users = {}

\* a member was sent the copy of an envelope in which the client had written
\* another user's id
C20_Witness ==
    \E r \in Conns : \E i \in 1..Len(sent[r]) :
        /\ sent[r][i].env.type \in {"edit", "cursor"}
        /\ sent[r][i].ok
        /\ LET c == sent[r][i].env.mid[1]
               k == sent[r][i].env.mid[2]
           IN  hist[c][k].claim \notin {NoUser, cuser[c]}


\* the users that hold a slot of active_connections under p
Members(p) ==
    IF p \in DOMAIN ac THEN {ac[p][i].uid : i \in LiveIdx(ac[p])} ELSE {}

\* C21: the response of the member-list endpoint for project X has exactly
\* one entry for every member registered in X and no other (none when X has
\* no member), its total is the number of entries, and serving it changes
\* nothing but the list of responses: no table, no session, no outbox.
C21_MemberListReadOnly ==
    [][ Len(resp') = Len(resp) + 1 =>
          LET r == resp'[Len(resp')]
          IN  /\ {r.active_users[i].user_id : i \in 1..Len(r.active_users)}
                    = Members(r.project_id)
              /\ Len(r.active_users) = Cardinality(Members(r.project_id))
              /\ r.total = Len(r.active_users)
              /\ \A i \in 1..Len(r.active_users) :
                    r.active_users[i] \in get_project_users(Mgr, r.project_id)
              /\ UNCHANGED <<pc, cuser, cproj, ccred, transport, closeCode, ac,
                             us, obj, tasks, it, sent, hist, edit_log, now>>
      ]_vars

\* the endpoint was asked for a project that had a member, while the other
\* project had a member too
C21_Witness ==
    \E i \in 1..Len(resp) :
        /\ resp[i].total = 1
        /\ resp[i].project_id \in DOMAIN ac
        /\ \E c \in Conns : Registered(c) /\ cproj[c] # resp[i].project_id

\* C22: a broadcast call during which another connection registered or
\* deregistered on the same project neither raises nor aborts, and once it has
\* returned every handle that was registered when it began (the excluded
\* member apart) and still is was sent the envelope.
C22_SnapshotIsolation ==
    \A call \in Calls :
        /\ call.st # "raised"
        /\ call.st = "returned" =>
              \A r \in Recipients(call) :
                  (Registered(r) /\ cproj[r] = call.proj) => r \in Tried(call)

\* the handler of c is in its receive loop
Joined(c) == pc[c] \in {"recv", "commit", "rollback", "msg_bcast"}

\* connect() has registered c
HasRegistered(c) == it[c].env.type # "none"

\* no connection opened after c has registered under c's key
Latest(c) ==
    \A b \in Conns :
        (b > c /\ cuser[b] = cuser[c] /\ cproj[b] = cproj[c]) => ~HasRegistered(b)

\* C23: a connection that is in its receive loop on a working channel and is
\* the latest registered for its (project, member) key holds the slot of that
\* key: neither the teardown of an older connection of the same identity nor a
\* clean-up aimed at the older handle removes it.
C23_NewerSlotKept ==
    \A c \in Conns :
        (Joined(c) /\ transport[c] = "open" /\ Latest(c)) => Registered(c)

\* the presence view a client builds from the envelopes q it received: the
\* users of active_users and of user_joined, less those of a later user_left
RECURSIVE ViewOf(_)
ViewOf(q) ==
    IF q = <<>> THEN {}
    ELSE LET V == ViewOf(SubSeq(q, 1, Len(q) - 1))
             x == q[Len(q)]
         IN  CASE ~x.ok -> V
               [] x.env.type = "active_users" -> V \cup x.env.users
               [] x.env.type = "user_joined" -> V \cup {x.env.user}
               [] x.env.type = "user_left" -> V \ {x.env.user}
               [] OTHER -> V

\* no handler step, broadcast or detached task is pending
Quiescent ==
    /\ \A c \in Conns : pc[c] \in {"idle", "recv", "closed"}
    /\ \A i \in 1..Len(tasks) : tasks[i].it.st \in {"returned", "raised"}

\* no send has failed
NoFailures == \A c \in Conns : \A i \in 1..Len(sent[c]) : sent[c][i].ok

\* C24: in a quiescent state without delivery failures, the view every joined
\* and registered connection built from the envelopes it received is the
\* project's current member set without its own member.
C24_PresenceConverges ==
    (Quiescent /\ NoFailures) =>
        \A c \in Conns :
            (pc[c] = "recv" /\ Registered(c)) =>
                ViewOf(sent[c]) = Listed(cproj[c]) \ {cuser[c]}

\* C25: when connect() registers connection c under a key that another
\* connection b holds, the registry afterwards has one entry for the key, its
\* handle is c, the session's connect and last-activity times are the time of
\* this registration, and b's transport and handler are as they were.
C25_ReRegisterReplaces ==
    [][ \A c \in Conns :
          LET b == HandleOf(Mgr, cproj[c], cuser[c])
          IN  (pc[c] = "accepted" /\ pc'[c] # "accepted" /\ b \notin {0, c}) =>
                /\ Cardinality(KeyIdx(ac'[cproj[c]], cuser[c])) = 1
                /\ ac'[cproj[c]][CHOOSE i \in KeyIdx(ac'[cproj[c]], cuser[c]) : TRUE].ws = c
                /\ LiveCount(ac'[cproj[c]]) = LiveCount(ac[cproj[c]])
                /\ us'[cproj[c]][cuser[c]].connected_at = now'
                /\ us'[cproj[c]][cuser[c]].last_activity = now'
                /\ transport'[b] = transport[b]
                /\ closeCode'[b] = closeCode[b]
                /\ pc'[b] = pc[b]
      ]_vars

\* a second connection of an identity registered at a later time than the
\* first, which is still open and in its receive loop
C25_Witness ==
    \E c, b \in Conns :
        /\ b < c /\ cuser[b] = cuser[c] /\ cproj[b] = cproj[c]
        /\ Registered(c)
        /\ pc[b] = "recv" /\ transport[b] = "open"
        /\ sent[b] # <<>> /\ sent[b][1].env.type = "active_users" /\ sent[b][1].env.ts = 0
        /\ us[cproj[c]][cuser[c]].connected_at = 1

\* the sends a broadcast call made in a step: the entries of its tried list
\* that the call as it was before the step does not have
NewTries(old, new) ==
    IF new.env = old.env /\ Len(old.tried) <= Len(new.tried)
    THEN {new.tried[i] : i \in (Len(old.tried) + 1)..Len(new.tried)}
    ELSE Range(new.tried)

\* the envelope types a broadcast carries
BroadcastTypes == {"edit", "cursor", "user_joined", "user_left"}

\* C26: every send a broadcast for project P makes goes to a handle that P's
\* registry entry holds at the time of the send and whose connection is on
\* P; a connection receives an edit, cursor, user_joined or user_left envelope
\* only of the project it is registered under; and every row of edit_history
\* has the project of the connection the edit came in on.
C26_ProjectIsolation ==
    [][ /\ \A c \in Conns : \A x \in NewTries(it[c], it'[c]) :
            /\ cproj[x.ws] = it'[c].proj
            /\ x.ws \in Handles(Mgr, it'[c].proj)
        /\ \A i \in 1..Len(tasks) : \A x \in NewTries(tasks[i].it, tasks'[i].it) :
            /\ cproj[x.ws] = tasks[i].proj
            /\ x.ws \in Handles(Mgr, tasks[i].proj)
        /\ \A r \in Conns : \A i \in (Len(sent[r]) + 1)..Len(sent'[r]) :
            LET e == sent'[r][i].env
            IN  e.type \in BroadcastTypes =>
                  /\ r \in Handles(Mgr, cproj[r])
                  /\ e.mid[1] \in Conns => cproj[e.mid[1]] = cproj[r]
        /\ \A i \in 1..Len(edit_log') :
            edit_log'[i].project_id = cproj[edit_log'[i].mid[1]]
      ]_vars

\* a broadcast on one project made a send while a connection was registered
\* under another project, and an edit of that kind was recorded
C26_Witness ==
    \E call \in Calls, c \in Conns :
        /\ call.tried # <<>>
        /\ call.env.type = "edit"
        /\ Rows(call.env.mid) # {}
        /\ Registered(c) /\ pc[c] = "recv" /\ transport[c] = "open"
        /\ cproj[c] # call.proj

\* C27: a connection's handler takes its next inbound payload only when the
\* handling of the one before is over (it is back at receive_text, its
\* broadcast has ended, its commit is decided), and every send and every
\* edit_history row made for a payload of the connection is for the payload
\* it took last: payloads are handled one at a time, in arrival order.
C27_OneAtATimeInOrder ==
    [][ \A c \in Conns :
          /\ Len(hist'[c]) # Len(hist[c]) =>
                /\ Len(hist'[c]) = Len(hist[c]) + 1
                /\ SubSeq(hist'[c], 1, Len(hist[c])) = hist[c]
                /\ pc[c] = "recv"
                /\ it[c].st # "running"
                /\ \A k \in 1..Len(hist[c]) :
                      hist[c][k].kind = "edit" => hist[c][k].commit # "na"
          /\ \A r \in Conns : \A i \in (Len(sent[r]) + 1)..Len(sent'[r]) :
                LET e == sent'[r][i].env
                IN  (e.mid[1] = c /\ e.mid[2] > 0) => e.mid[2] = Len(hist'[c])
          /\ \A i \in (Len(edit_log) + 1)..Len(edit_log') :
                edit_log'[i].mid[1] = c => edit_log'[i].mid[2] = Len(hist'[c])
      ]_vars

\* a connection's two payloads were both fanned out to a peer, the first
\* before the second
C27_Witness ==
    \E c, r \in Conns :
        /\ r # c
        /\ Len(hist[c]) = 2
        /\ \E i, j \in 1..Len(sent[r]) :
            /\ i < j
            /\ sent[r][i].env.mid = <<c, 1>>
            /\ sent[r][j].env.mid = <<c, 2>>

\* the step is a fault in the receive loop of c: the finally clause and the
\* outer except clause end the handler with the internal-error close
Faults(c) ==
    /\ Joined(c)
    /\ pc'[c] = "closed"
    /\ closeCode'[c] = CodeInternal

\* C28: a fault in the receive loop of one connection closes that connection
\* with the internal-error code and leaves every other connection's handler,
\* transport, registry slot and received envelopes as they were.
C28_FaultIsolation ==
    [][ \A c \in Conns :
          Faults(c) =>
            \A r \in Conns \ {c} :
                /\ pc'[r] = pc[r]
                /\ transport'[r] = transport[r]
                /\ closeCode'[r] = closeCode[r]
                /\ sent'[r] = sent[r]
                /\ Registered(r) => Registered(r)'
      ]_vars

\* C29: an edit whose commit raised leaves no row; while it is the last
\* payload of its connection and the peer is there, the handler has not ended
\* and the connection holds its slot; and a later edit of the same connection
\* whose commit succeeds has its row and, once handled, was sent to every
\* member registered when its broadcast began that still is.
C29_PersistFailureNotFatal ==
    \A mid \in Edits("fail") :
        LET c == mid[1]
        IN  /\ Rows(mid) = {}
            /\ (Len(hist[c]) = mid[2] /\ transport[c] # "broken") =>
                  (pc[c] # "closed" /\ Registered(c))
            /\ \A later \in Edits("ok") :
                  (later[1] = c /\ later[2] > mid[2]) =>
                      /\ Cardinality(Rows(later)) = 1
                      /\ Handled(c, later[2]) =>
                            \A r \in Recipients(it[c]) :
                                (it[c].env.mid = later /\ Registered(r)) =>
                                    Cardinality(SentIdx(r, "edit", later)) = 1

\* the registry has a slot for the key of connection c
MemberRegistered(c) == HandleOf(Mgr, cproj[c], cuser[c]) # 0

\* C30: when a row is written for an edit of connection c, and when a
\* broadcast of an edit or cursor envelope of c begins with a send, the
\* registry holds a slot for c's member in c's project.
C30_SenderRegistered ==
    [][ \A c \in Conns :
          /\ (\E i \in (Len(edit_log) + 1)..Len(edit_log') : edit_log'[i].mid[1] = c)
                => MemberRegistered(c)
          /\ ( /\ it'[c].env # it[c].env
               /\ it'[c].env.type \in {"edit", "cursor"}
               /\ it'[c].tried # <<>> )
                => MemberRegistered(c)
      ]_vars

\* C31: the first envelope sent to a connection is its active_users list: no
\* envelope another handler broadcasts comes before it.
C31_SnapshotFirst ==
    \A c \in Conns :
        sent[c] # <<>> => sent[c][1].env.type = "active_users"

\* C32: in every step edit_history keeps the rows it had, in place and
\* unchanged; it grows only in the step in which the commit of an edit
\* envelope succeeds, by the one row of that envelope, and no envelope ever
\* has two rows.
C32_EditLogAppendOnly ==
    [][ /\ Len(edit_log) <= Len(edit_log')
        /\ SubSeq(edit_log', 1, Len(edit_log)) = edit_log
        /\ Len(edit_log') <= Len(edit_log) + 1
        /\ edit_log' # edit_log =>
              \E c \in Conns :
                  /\ pc[c] = "commit"
                  /\ hist[c][Len(hist[c])].kind = "edit"
                  /\ hist'[c][Len(hist[c])].commit = "ok"
                  /\ edit_log'[Len(edit_log')] = EditRow(c, CurMid(c))
        /\ \A i, j \in 1..Len(edit_log') :
              edit_log'[i].mid = edit_log'[j].mid => i = j
      ]_vars

\* two edits were recorded, and a handler that had registered has ended
C32_Witness ==
    /\ Len(edit_log) = 2
    /\ edit_log[1] # edit_log[2]
    /\ \E c \in Conns : pc[c] = "closed" /\ HasRegistered(c)

\* the state of the connection's life cycle the handler of c is in
Phase(c) ==
    CASE pc[c] = "idle" -> "Connecting"
      [] pc[c] = "authenticating" -> "Authenticating"
      [] pc[c] \in {"authorizing", "accepting", "accepted"} -> "Authorizing"
      [] pc[c] = "closed" -> "Closed"
      [] OTHER -> "Joined"

\* the moves of the life cycle (Closing is passed within the step that ends
\* the handler)
PhaseMoves ==
    {<<"Connecting", "Authenticating">>, <<"Authenticating", "Authorizing">>,
     <<"Authenticating", "Closed">>, <<"Authorizing", "Joined">>,
     <<"Authorizing", "Closed">>, <<"Joined", "Closed">>}

\* C33: a connection's state changes only along the life cycle, Closed is
\* terminal and Joined is not entered twice, and the registry holds a
\* connection's handle only while the connection is Joined.
C33_LifeCycle ==
    [][ \A c \in Conns :
          /\ Phase(c)' # Phase(c) => <<Phase(c), Phase(c)'>> \in PhaseMoves
          /\ Registered(c)' => Phase(c)' = "Joined"
      ]_vars

\* the broadcast copies of inbound envelopes of connection c among what was
\* sent to r
CopiesOf(r, c) ==
    {i \in 1..Len(sent[r]) :
        sent[r][i].env.type \in {"edit", "cursor"} /\ sent[r][i].env.mid[1] = c}

\* C34: the copies of one connection's envelopes are sent to a member in the
\* order the envelopes came in, and the user_left announcing that
\* connection's departure is sent to the member after all of them.
C34_PerSenderFifo ==
    \A r, c \in Conns :
        /\ \A i, j \in CopiesOf(r, c) :
              i < j => sent[r][i].env.mid[2] < sent[r][j].env.mid[2]
        /\ \A i \in SentIdx(r, "user_left", <<c, 0>>) :
              \A j \in CopiesOf(r, c) : j < i

\* the number of (project, member) keys the registry holds
NKeys == Cardinality(UNION {{<<p, i>> : i \in LiveIdx(ac[p])} : p \in DOMAIN ac})

\* no detached broadcast is pending
TasksEnded == \A i \in 1..Len(tasks) : tasks[i].it.st \in {"returned", "raised"}

\* C35: every step that schedules user_left broadcasts removes as many keys
\* from the registry as it schedules broadcasts (a deregistration that finds
\* nothing schedules none), and from some point on no detached broadcast is
\* pending: the cascade of failed sends, deregistrations and user_left
\* broadcasts ends.
C35_CascadeTerminates ==
    /\ [][ Len(tasks') # Len(tasks) =>
              /\ Len(tasks') > Len(tasks)
              /\ NKeys' = NKeys - (Len(tasks') - Len(tasks)) ]_vars
    /\ <>[]TasksEnded

\* the cascade went two rounds and ended: a user_left broadcast failed to
\* send to a member, its clean-up deregistered that member and scheduled the
\* member's user_left broadcast, and both broadcasts have returned
C35_Witness ==
    /\ TasksEnded
    /\ \E i, j \in 1..Len(tasks) :
        /\ i < j
        /\ tasks[i].it.st = "returned" /\ tasks[j].it.st = "returned"
        /\ tasks[i].it.failed # <<>>
        /\ tasks[j].env.user \in Range(tasks[i].it.failed)
        /\ tasks[j].it.tried # <<>>

\* the two tables of the registry have the same project keys, under every
\* project the same member keys, and no empty inner table
Lockstep ==
    /\ DOMAIN ac = DOMAIN us
    /\ \A p \in DOMAIN ac :
        /\ {ac[p][i].uid : i \in LiveIdx(ac[p])} = DOMAIN us[p]
        /\ LiveIdx(ac[p]) # {}
        /\ DOMAIN us[p] # {}

\* C36: after every step the two registry tables are in lockstep, and the
\* step in which a connection whose member has no slot takes an envelope
\* (the last-activity update finds nothing) leaves both tables as they were
\* and does not end the handler.
C36_TablesInLockstep ==
    [][ /\ Lockstep'
        /\ \A c \in Conns :
            (Takes(c, {"edit", "cursor", "ping", "other"}) /\ ~MemberRegistered(c)) =>
                /\ us' = us
                /\ ac' = ac
                /\ Touch(Mgr, cproj[c], cuser[c], now') = Mgr
                /\ pc'[c] # "closed"
      ]_vars

\* a connection that had lost its slot took a cursor envelope: a peer was
\* sent the user_left for the connection's slot and after it the copy of the
\* connection's envelope, and the connection is still in its receive loop
C36_Witness ==
    \E c, r \in Conns :
        /\ pc[c] = "recv"
        /\ ~MemberRegistered(c)
        /\ \E i \in SentIdx(r, "user_left", <<c, 0>>), j \in SentIdx(r, "cursor", <<c, 1>>) :
              i < j
====
